---------------------------- MODULE Spec2Model ----------------------------
(***************************************************************************)
(* A model of the ipv46 library (src/src/index.ts): IPv4 and IPv6          *)
(* addresses, their parsers and formatter, the ordinal comparison, the     *)
(* CIDR mask, the successor function and the IPRange type with its lazy    *)
(* enumeration.                                                            *)
(*                                                                         *)
(* An address is a record [version, items]: items is the byte array of an  *)
(* IPv4 (4 items in 0..255) or the word array of an IPv6 (8 items in       *)
(* 0..65535), 1-indexed here and 0-indexed in the source.  A text is a     *)
(* sequence of one-character strings.                                      *)
(***************************************************************************)
EXTENDS Integers, Sequences, FiniteSets, TLC

VARIABLES
    op,        \* the operation performed last ("init" before any)
    txt,       \* the text handed to a parser
    a, b, c,   \* address arguments
    bits,      \* the prefix length handed to cidr
    res,       \* the address (or Null) an operation returned
    num,       \* the numbers IP.cmp returned
    out,       \* the text toString returned
    rng,       \* the IPRange that exists (NoRange: none)
    thrown,    \* whether the last operation threw a TypeError
    pc,        \* the generator of rng.ips(): "none", "fresh", "suspended", "done"
    ip,        \* the generator's local variable ip
    yielded    \* the addresses the generator has yielded so far

vars == <<op, txt, a, b, c, bits, res, num, out, rng, thrown, pc, ip, yielded>>

(***************************************************************************)
(* Values                                                                  *)
(***************************************************************************)
Null == [version |-> 0, items |-> <<>>]

NoRange == [version |-> 0, first |-> Null, last |-> Null]

NoText == <<"?">>

BYTE_MAX == 255

WORD_MAX == 65535

IPv4(bytes) == [version |-> 4, items |-> bytes]

IPv6(words) == [version |-> 6, items |-> words]

(***************************************************************************)
(* cmpSameLengthArrays: the first differing element decides.               *)
(***************************************************************************)
RECURSIVE cmpFrom(_, _, _)
cmpFrom(left, right, i) ==
    IF i > Len(left) THEN 0
    ELSE IF left[i] # right[i] THEN (IF left[i] < right[i] THEN -1 ELSE 1)
    ELSE cmpFrom(left, right, i + 1)

cmpSameLengthArrays(left, right) == cmpFrom(left, right, 1)

IPv4_cmp(x, y) == cmpSameLengthArrays(x.items, y.items)

IPv6_cmp(x, y) == cmpSameLengthArrays(x.items, y.items)

(***************************************************************************)
(* IP.cmp.  The last branch of the source (equal versions that are neither *)
(* 4 nor 6) throws; no address has such a version, so it is not a value    *)
(* here.                                                                   *)
(***************************************************************************)
\* A faulty IP.cmp: the answer for two families reversed.
IP_cmpFlipped(x, y) ==
    IF x.version = 6 /\ y.version = 6 THEN IPv6_cmp(x, y)
    ELSE IF x.version = 4 /\ y.version = 4 THEN IPv4_cmp(x, y)
    ELSE IF x.version < y.version THEN 1 ELSE -1

IP_cmp(x, y) ==
    IF x.version = 6 /\ y.version = 6 THEN IPv6_cmp(x, y)
    ELSE IF x.version = 4 /\ y.version = 4 THEN IPv4_cmp(x, y)
    ELSE IF x.version < y.version THEN -1 ELSE 1

(***************************************************************************)
(* _next.  The loop walks from the last item to the first.  An item below  *)
(* the maximum is incremented and the loop breaks; otherwise the item is   *)
(* set to 0 and the item before it is incremented in place, and the loop   *)
(* goes on to read that item.  At index 0 of the source (1 here) the       *)
(* statement bytes[i - 1]++ writes the property "-1" of the array, which   *)
(* is no element of it.                                                    *)
(***************************************************************************)
RECURSIVE IPv4_nextLoop(_, _)
IPv4_nextLoop(bytes, i) ==
    IF i < 1 THEN IPv4(bytes)
    ELSE IF bytes[i] = BYTE_MAX /\ i = 1 THEN Null
    ELSE IF bytes[i] < BYTE_MAX THEN IPv4([bytes EXCEPT ![i] = @ + 1])
    ELSE LET zeroed == [bytes EXCEPT ![i] = 0]
             carried == IF i > 1 THEN [zeroed EXCEPT ![i - 1] = @ + 1] ELSE zeroed
         IN  IPv4_nextLoop(carried, i - 1)

IPv4_next(x) == IPv4_nextLoop(x.items, Len(x.items))

RECURSIVE IPv6_nextLoop(_, _)
IPv6_nextLoop(words, i) ==
    IF i < 1 THEN IPv6(words)
    ELSE IF words[i] = WORD_MAX /\ i = 1 THEN Null
    ELSE IF words[i] < WORD_MAX THEN IPv6([words EXCEPT ![i] = @ + 1])
    ELSE LET zeroed == [words EXCEPT ![i] = 0]
             carried == IF i > 1 THEN [zeroed EXCEPT ![i - 1] = @ + 1] ELSE zeroed
         IN  IPv6_nextLoop(carried, i - 1)

IPv6_next(x) == IPv6_nextLoop(x.items, Len(x.items))

IP_next(x) == IF x.version = 4 THEN IPv4_next(x) ELSE IPv6_next(x)

(***************************************************************************)
(* Arithmetic on addresses as big-endian numbers, for stating the claims:  *)
(* PlusOne is ripple-carry addition of 1 (Null on overflow), PlusK adds k. *)
(***************************************************************************)
ItemMax(x) == IF x.version = 4 THEN BYTE_MAX ELSE WORD_MAX

IsMaxAddress(x) == \A i \in 1..Len(x.items) : x.items[i] = ItemMax(x)

RECURSIVE PlusOneAt(_, _)
PlusOneAt(x, i) ==
    IF i < 1 THEN Null
    ELSE IF x.items[i] < ItemMax(x)
         THEN [x EXCEPT !.items[i] = @ + 1]
         ELSE PlusOneAt([x EXCEPT !.items[i] = 0], i - 1)

PlusOne(x) == PlusOneAt(x, Len(x.items))

RECURSIVE PlusK(_, _)
PlusK(x, k) == IF k = 0 \/ x = Null THEN x ELSE PlusK(PlusOne(x), k - 1)

(***************************************************************************)
(* Sample addresses: every item is one of the lowest EdgeLow values or one *)
(* of the two highest, so that carries of every length happen.             *)
(***************************************************************************)
EdgeLow == 1

EdgeItems(max) == (0..(EdgeLow - 1)) \cup {max - 1, max}

Tuples(n, S) == [1..n -> S]

EdgeAddresses ==
    {IPv4(t) : t \in Tuples(4, EdgeItems(BYTE_MAX))}
        \cup {IPv6(t) : t \in Tuples(8, EdgeItems(WORD_MAX))}

(***************************************************************************)
(* SpecSucc: the successor of one address.                                 *)
(***************************************************************************)
Idle ==
    /\ op = "init"
    /\ txt = NoText /\ out = NoText
    /\ a = Null /\ b = Null /\ c = Null /\ res = Null
    /\ bits = 0 /\ num = <<>>
    /\ rng = NoRange /\ thrown = FALSE
    /\ pc = "none" /\ ip = Null /\ yielded = <<>>

InitSucc ==
    /\ a \in EdgeAddresses
    /\ op = "init"
    /\ txt = NoText /\ out = NoText
    /\ b = Null /\ c = Null /\ res = Null
    /\ bits = 0 /\ num = <<>>
    /\ rng = NoRange /\ thrown = FALSE
    /\ pc = "none" /\ ip = Null /\ yielded = <<>>

CallNext4 ==
    /\ op = "init" /\ a.version = 4
    /\ res' = IPv4_next(a)
    /\ op' = "next"
    /\ UNCHANGED <<txt, a, b, c, bits, num, out, rng, thrown, pc, ip, yielded>>

CallNext6 ==
    /\ op = "init" /\ a.version = 6
    /\ res' = IPv6_next(a)
    /\ op' = "next"
    /\ UNCHANGED <<txt, a, b, c, bits, num, out, rng, thrown, pc, ip, yielded>>

NextSucc == CallNext4 \/ CallNext6

SpecSucc == InitSucc /\ [][NextSucc]_vars

\* C1: the successor of every address but the maximum of its family is the
\* address whose big-endian value is the input's plus 1.
C1_SuccessorIsPlusOne ==
    (op = "next" /\ ~IsMaxAddress(a)) => res = PlusOne(a)

\* C2: the successor is null exactly for the maximum address of a family; the
\* maximum is never wrapped to the minimum.
C2_NullExactlyAtMax ==
    op = "next" => ((res = Null) <=> IsMaxAddress(a))

(***************************************************************************)
(* IPRange: the constructor throws a TypeError for two versions, and swaps *)
(* endpoints given in reversed order.                                      *)
(***************************************************************************)
TypeError == [version |-> -1, first |-> Null, last |-> Null]

\* A faulty constructor: the endpoints kept in the order given.
IPRangeNoSwap(first, last) ==
    IF first.version # last.version THEN TypeError
    ELSE [version |-> first.version, first |-> first, last |-> last]

IPRange(first, last) ==
    IF first.version # last.version THEN TypeError
    ELSE IF IP_cmp(first, last) > 0
         THEN [version |-> first.version, first |-> last, last |-> first]
         ELSE [version |-> first.version, first |-> first, last |-> last]

\* new IPRange(first, last): the range exists unless the constructor threw.
Construct(first, last) ==
    /\ op = "init"
    /\ a' = first
    /\ b' = last
    /\ op' = "construct"
    /\ IF IPRange(first, last) = TypeError
       THEN thrown' = TRUE /\ rng' = NoRange
       ELSE thrown' = FALSE /\ rng' = IPRange(first, last)
    /\ UNCHANGED <<txt, c, bits, res, num, out, pc, ip, yielded>>

(***************************************************************************)
(* IPRange.ips, a generator: the call creates it, and each pull runs it to *)
(* its next yield or to its end.  The first pull starts from this.first,   *)
(* every later one resumes after the yield with ip = ip._next().           *)
(***************************************************************************)
MaxPulls == 4

IpsCall ==
    /\ rng # NoRange
    /\ pc \in {"none", "done"}
    /\ pc' = "fresh"
    /\ ip' = Null
    /\ yielded' = <<>>
    /\ op' = "ips"
    /\ UNCHANGED <<txt, a, b, c, bits, res, num, out, rng, thrown>>

IpsPull ==
    /\ pc \in {"fresh", "suspended"}
    /\ Len(yielded) < MaxPulls
    /\ LET cand == IF pc = "fresh" THEN rng.first ELSE IP_next(ip)
       IN  /\ ip' = cand
           /\ IF cand # Null /\ IP_cmp(cand, rng.last) <= 0
              THEN pc' = "suspended" /\ yielded' = Append(yielded, cand)
              ELSE pc' = "done" /\ yielded' = yielded
    /\ op' = "pull"
    /\ UNCHANGED <<txt, a, b, c, bits, res, num, out, rng, thrown>>

(***************************************************************************)
(* SpecIps: a range of at most MaxSpan + 1 addresses is constructed (its   *)
(* endpoints in either order) and enumerated.                              *)
(***************************************************************************)
MaxSpan == 2

IterStarts ==
    {IPv4(t) : t \in Tuples(4, EdgeItems(BYTE_MAX))}
        \cup {IPv6(t \o <<w>>) : t \in Tuples(7, {0, WORD_MAX}),
                                 w \in EdgeItems(WORD_MAX)}

ConstructSpan ==
    \E first \in IterStarts, k \in 0..MaxSpan, swap \in BOOLEAN :
        /\ op = "init"
        /\ PlusK(first, k) # Null
        /\ IF swap THEN Construct(PlusK(first, k), first)
                   ELSE Construct(first, PlusK(first, k))

NextIps == ConstructSpan \/ IpsCall \/ IpsPull

SpecIps == Idle /\ [][NextIps]_vars

\* The number of addresses of rng less one: the k with first + k = last.
Span == CHOOSE k \in 0..MaxSpan : PlusK(rng.first, k) = rng.last

\* C3: ips() yields first, first + 1, ... in ascending order, none beyond
\* last, and at exhaustion it has yielded every address up to last.
C3_IpsYieldsExactlyTheRange ==
    /\ \A i \in 1..Len(yielded) :
           /\ yielded[i] = PlusK(rng.first, i - 1)
           /\ IP_cmp(yielded[i], rng.last) <= 0
    /\ pc = "done" => (Len(yielded) = Span + 1 /\ yielded[Len(yielded)] = rng.last)

\* C4: the enumeration of a range ends after at most last - first + 1
\* addresses, also when last is the maximum address of the family.
C4_IpsAtMostSpanPlusOne ==
    pc # "none" => Len(yielded) <= Span + 1

(***************************************************************************)
(* The 32-bit integer operators of the source.  A value is the signed      *)
(* number the source's int32 holds; BitAnd and BitOr work on its two's     *)
(* complement (-1 is all ones), Shl32 drops the bits shifted out of 32.    *)
(***************************************************************************)
RECURSIVE BitAnd(_, _)
BitAnd(x, y) ==
    IF x = 0 \/ y = 0 THEN 0
    ELSE IF x = -1 THEN y
    ELSE IF y = -1 THEN x
    ELSE ((x % 2) * (y % 2)) + 2 * BitAnd(x \div 2, y \div 2)

RECURSIVE BitOr(_, _)
BitOr(x, y) ==
    IF x = 0 THEN y
    ELSE IF y = 0 THEN x
    ELSE IF x = -1 \/ y = -1 THEN -1
    ELSE (IF (x % 2) + (y % 2) > 0 THEN 1 ELSE 0) + 2 * BitOr(x \div 2, y \div 2)

\* x << s for an int32 x >= 0 and 0 <= s <= 30: bit 31 - s of x becomes the sign.
Shl32(x, s) ==
    IF s = 0 THEN x
    ELSE LET kept == (x % (2 ^ (31 - s))) * (2 ^ s)
             sign == (x \div (2 ^ (31 - s))) % 2
         IN  IF sign = 1 THEN (kept - 2 ^ 30) - 2 ^ 30 ELSE kept

Min(x, y) == IF x < y THEN x ELSE y

Max(x, y) == IF x > y THEN x ELSE y

(***************************************************************************)
(* mask: the number of low bits of item i (0-based) outside the prefix,    *)
(* and the item with those bits cleared and then set to bitValue.          *)
(***************************************************************************)
\* A faulty leftBits: i in the place of i + 1.
leftBitsMutant(i, nbits, bitsPerItem) ==
    Min(Max(0, i * bitsPerItem - nbits), bitsPerItem)

leftBits(i, nbits, bitsPerItem) ==
    Min(Max(0, (i + 1) * bitsPerItem - nbits), bitsPerItem)

maskItem(item, i, nbits, bitsPerItem, bitValue) ==
    LET itemMask == Shl32(1, bitsPerItem) - 1
        left == leftBits(i, nbits, bitsPerItem)
        cleared == BitAnd(item, BitAnd(Shl32(itemMask, left), itemMask))
    IN  BitOr(cleared, bitValue * (Shl32(1, left) - 1))

mask(array, nbits, bitsPerItem, bitValue) ==
    [i \in 1..Len(array) |-> maskItem(array[i], i - 1, nbits, bitsPerItem, bitValue)]

IPv4_cidr(x, nbits) ==
    IPRange(IPv4(mask(x.items, nbits, 8, 0)), IPv4(mask(x.items, nbits, 8, 1)))

IPv6_cidr(x, nbits) ==
    IPRange(IPv6(mask(x.items, nbits, 16, 0)), IPv6(mask(x.items, nbits, 16, 1)))

IP_cidr(x, nbits) == IF x.version = 4 THEN IPv4_cidr(x, nbits) ELSE IPv6_cidr(x, nbits)

Cidr4(x, nbits) ==
    /\ op = "init" /\ x.version = 4
    /\ a' = x
    /\ bits' = nbits
    /\ rng' = IPv4_cidr(x, nbits)
    /\ op' = "cidr"
    /\ UNCHANGED <<txt, b, c, res, num, out, thrown, pc, ip, yielded>>

Cidr6(x, nbits) ==
    /\ op = "init" /\ x.version = 6
    /\ a' = x
    /\ bits' = nbits
    /\ rng' = IPv6_cidr(x, nbits)
    /\ op' = "cidr"
    /\ UNCHANGED <<txt, b, c, res, num, out, thrown, pc, ip, yielded>>

(***************************************************************************)
(* Texts.  Indices are those of the source (0-based); Slice(s, from, to)   *)
(* is s.slice(from, to), IndexOf and LastIndexOf return -1 for no match.   *)
(***************************************************************************)
Digits == <<"0", "1", "2", "3", "4", "5", "6", "7", "8", "9">>

HexLower == Digits \o <<"a", "b", "c", "d", "e", "f">>

HexUpper == Digits \o <<"A", "B", "C", "D", "E", "F">>

IsDigit(ch) == \E i \in 1..10 : Digits[i] = ch

DigitVal(ch) == (CHOOSE i \in 1..10 : Digits[i] = ch) - 1

IsHexDigit(ch) == \E i \in 1..16 : HexLower[i] = ch \/ HexUpper[i] = ch

HexVal(ch) == (CHOOSE i \in 1..16 : HexLower[i] = ch \/ HexUpper[i] = ch) - 1

toLowerCaseChar(ch) ==
    IF \E i \in 11..16 : HexUpper[i] = ch
    THEN HexLower[CHOOSE i \in 11..16 : HexUpper[i] = ch]
    ELSE ch

toLowerCase(s) == [i \in 1..Len(s) |-> toLowerCaseChar(s[i])]

Slice(s, from, to) == SubSeq(s, from + 1, Min(to, Len(s)))

SliceFrom(s, from) == SubSeq(s, from + 1, Len(s))

StartsAt(s, pat, i) ==
    /\ i + Len(pat) <= Len(s)
    /\ \A k \in 1..Len(pat) : s[i + k] = pat[k]

RECURSIVE IndexOf(_, _, _)
IndexOf(s, pat, from) ==
    IF from + Len(pat) > Len(s) THEN -1
    ELSE IF StartsAt(s, pat, from) THEN from
    ELSE IndexOf(s, pat, from + 1)

RECURSIVE LastIndexFrom(_, _, _)
LastIndexFrom(s, pat, from) ==
    IF from < 0 THEN -1
    ELSE IF StartsAt(s, pat, from) THEN from
    ELSE LastIndexFrom(s, pat, from - 1)

LastIndexOf(s, pat) == LastIndexFrom(s, pat, Len(s) - Len(pat))

\* s.split(sep) for a one-character sep: the pieces between the separators.
RECURSIVE Split(_, _)
Split(s, sep) ==
    LET i == IndexOf(s, <<sep>>, 0)
    IN  IF i < 0 THEN <<s>>
        ELSE <<Slice(s, 0, i)>> \o Split(SliceFrom(s, i + 1), sep)

RECURSIVE Join(_, _)
Join(pieces, sep) ==
    IF Len(pieces) = 0 THEN <<>>
    ELSE IF Len(pieces) = 1 THEN pieces[1]
    ELSE pieces[1] \o sep \o Join(Tail(pieces), sep)

\* Number(s) for a text of decimal digits.
RECURSIVE Number(_)
Number(s) ==
    IF Len(s) = 0 THEN 0
    ELSE 10 * Number(SubSeq(s, 1, Len(s) - 1)) + DigitVal(s[Len(s)])

\* parseInt(s, 16) for a text of hexadecimal digits.
RECURSIVE parseInt16(_)
parseInt16(s) ==
    IF Len(s) = 0 THEN 0
    ELSE 16 * parseInt16(SubSeq(s, 1, Len(s) - 1)) + HexVal(s[Len(s)])

\* w.toString(16) for a number w >= 0.
RECURSIVE toString16(_)
toString16(w) ==
    IF w < 16 THEN <<HexLower[w + 1]>>
    ELSE toString16(w \div 16) \o <<HexLower[(w % 16) + 1]>>

\* The null a parser of arrays returns (an empty array is a value).
NullArray == <<-1>>

(***************************************************************************)
(* IPv4: IPV4_REGEX is four groups between dots, each one of the           *)
(* alternatives 25[0-5], 2[0-4]\d, 1\d\d, [1-9]\d, \d.                     *)
(***************************************************************************)
IsOctetText(s) ==
    /\ Len(s) \in 1..3
    /\ \A i \in 1..Len(s) : IsDigit(s[i])
    /\ \/ Len(s) = 3 /\ s[1] = "2" /\ s[2] = "5" /\ DigitVal(s[3]) <= 5
       \/ Len(s) = 3 /\ s[1] = "2" /\ DigitVal(s[2]) <= 4
       \/ Len(s) = 3 /\ s[1] = "1"
       \/ Len(s) = 2 /\ s[1] # "0"
       \/ Len(s) = 1

parseIPv4Bytes(ipStr) ==
    LET groups == Split(ipStr, ".")
    IN  IF Len(groups) = 4 /\ \A i \in 1..4 : IsOctetText(groups[i])
        THEN [i \in 1..4 |-> Number(groups[i])]
        ELSE NullArray

IPv4_parse(string) ==
    IF IndexOf(string, <<".">>, 0) < 0 THEN Null
    ELSE LET bytes == parseIPv4Bytes(string)
         IN  IF bytes = NullArray THEN Null ELSE IPv4(bytes)

(***************************************************************************)
(* IPv6 parsing.  IPV6_REGEX is /^[a-f0-9:]{2,39}$/i.                      *)
(***************************************************************************)
IPV6_MIN_LEN == 2

IPV6_MAX_LEN == 39

IPV6_REGEX_test(ipStr) ==
    /\ Len(ipStr) >= IPV6_MIN_LEN
    /\ Len(ipStr) <= IPV6_MAX_LEN
    /\ \A i \in 1..Len(ipStr) : IsHexDigit(ipStr[i]) \/ ipStr[i] = ":"

IPV6_ZEROS == <<0, 0, 0, 0, 0, 0, 0, 0>>

\* A faulty parseHexWords: no limit on the length of a word.
parseHexWordsLong(ipStr) ==
    IF Len(ipStr) = 0 THEN <<>>
    ELSE LET split == Split(ipStr, ":")
         IN  IF \E i \in 1..Len(split) : Len(split[i]) = 0
             THEN NullArray
             ELSE [i \in 1..Len(split) |-> parseInt16(split[i])]

parseHexWords(ipStr) ==
    IF Len(ipStr) = 0 THEN <<>>
    ELSE LET split == Split(ipStr, ":")
         IN  IF \E i \in 1..Len(split) : Len(split[i]) = 0 \/ Len(split[i]) > 4
             THEN NullArray
             ELSE [i \in 1..Len(split) |-> parseInt16(split[i])]

parseIPv6Words(ipStr) ==
    IF ~IPV6_REGEX_test(ipStr) THEN NullArray
    ELSE LET idx == IndexOf(ipStr, <<":", ":">>, 0)
         IN  IF idx >= 0 /\ IndexOf(ipStr, <<":", ":">>, idx + 1) >= 0 THEN NullArray
             ELSE LET head == IF idx >= 0 THEN parseHexWords(Slice(ipStr, 0, idx))
                                          ELSE parseHexWords(ipStr)
                      tail == IF idx >= 0 THEN parseHexWords(SliceFrom(ipStr, idx + 2))
                                          ELSE <<>>
                  IN  IF head = NullArray \/ tail = NullArray THEN NullArray
                      ELSE IF idx < 0 /\ Len(head) # 8 THEN NullArray
                      ELSE IF idx >= 0 /\ Len(head) + Len(tail) > 7 THEN NullArray
                      ELSE head \o Slice(IPV6_ZEROS, 0, 8 - Len(head) - Len(tail)) \o tail

\* A faulty IPv6.parse: the embedded IPv4 literal stands for one word in the
\* word count.
IPv6_parseOneWord(string) ==
    LET index == LastIndexOf(string, <<":">>)
    IN  IF index < 0 THEN Null
        ELSE LET bytes == parseIPv4Bytes(SliceFrom(string, index + 1))
             IN  IF bytes = NullArray
                 THEN LET words == parseIPv6Words(string)
                      IN  IF words = NullArray THEN Null ELSE IPv6(words)
                 ELSE LET words == parseIPv6Words(Slice(string, 0, index + 1) \o <<"0">>)
                      IN  IF words = NullArray THEN Null
                          ELSE IPv6([words EXCEPT ![7] = bytes[1] * 256 + bytes[2],
                                                  ![8] = bytes[3] * 256 + bytes[4]])

IPv6_parse(string) ==
    LET index == LastIndexOf(string, <<":">>)
    IN  IF index < 0 THEN Null
        ELSE LET bytes == parseIPv4Bytes(SliceFrom(string, index + 1))
             IN  IF bytes = NullArray
                 THEN LET words == parseIPv6Words(string)
                      IN  IF words = NullArray THEN Null ELSE IPv6(words)
                 ELSE LET words == parseIPv6Words(Slice(string, 0, index + 1)
                                                      \o <<"0", ":", "0">>)
                      IN  IF words = NullArray THEN Null
                          ELSE IPv6([words EXCEPT ![7] = bytes[1] * 256 + bytes[2],
                                                  ![8] = bytes[3] * 256 + bytes[4]])

IP_parse(string) ==
    LET v4 == IPv4_parse(string)
    IN  IF v4 # Null THEN v4 ELSE IPv6_parse(string)

(***************************************************************************)
(* IPv6 formatting.  The loop of formatIPv6 keeps the current run of zero  *)
(* words, the longest run seen and where it starts (-1 for null); a run    *)
(* replaces the longest only when it is strictly longer.                   *)
(***************************************************************************)
formatHexWords(words, start, end) ==
    LET part == Slice(words, start, end)
    IN  Join([i \in 1..Len(part) |-> toString16(part[i])], <<":">>)

\* A faulty loop body: a run as long as the longest replaces it.
runStepTies(run, words, i) ==
    IF words[i] = 0
    THEN IF run.currentRun + 1 > 1 /\ run.currentRun + 1 >= run.longestRun
         THEN [currentRun |-> run.currentRun + 1,
               longestRun |-> run.currentRun + 1,
               start |-> (i - 1) - (run.currentRun + 1) + 1]
         ELSE [run EXCEPT !.currentRun = @ + 1]
    ELSE [run EXCEPT !.currentRun = 0]

\* A faulty loop body: the start of the run one word too far left.
runStepShifted(run, words, i) ==
    IF words[i] = 0
    THEN IF run.currentRun + 1 > 1 /\ run.currentRun + 1 > run.longestRun
         THEN [currentRun |-> run.currentRun + 1,
               longestRun |-> run.currentRun + 1,
               start |-> (i - 1) - (run.currentRun + 1)]
         ELSE [run EXCEPT !.currentRun = @ + 1]
    ELSE [run EXCEPT !.currentRun = 0]

\* One pass of the loop body, for the word at index i (1-based; i - 1 in the source).
runStep(run, words, i) ==
    IF words[i] = 0
    THEN IF run.currentRun + 1 > 1 /\ run.currentRun + 1 > run.longestRun
         THEN [currentRun |-> run.currentRun + 1,
               longestRun |-> run.currentRun + 1,
               start |-> (i - 1) - (run.currentRun + 1) + 1]
         ELSE [run EXCEPT !.currentRun = @ + 1]
    ELSE [run EXCEPT !.currentRun = 0]

RECURSIVE runLoop(_, _, _)
runLoop(run, words, i) ==
    IF i > 8 THEN run ELSE runLoop(runStep(run, words, i), words, i + 1)

formatIPv6(words) ==
    LET run == runLoop([currentRun |-> 0, longestRun |-> 0, start |-> -1], words, 1)
    IN  IF run.start = -1 THEN formatHexWords(words, 0, Len(words))
        ELSE formatHexWords(words, 0, run.start)
                 \o <<":", ":">>
                 \o formatHexWords(words, run.start + run.longestRun, Len(words))

\* The memo _string holds this value after the first call.
IPv6_toString(x) == toLowerCase(formatIPv6(x.items))

(***************************************************************************)
(* IPv4.toString: the bytes in decimal, joined by dots.                    *)
(***************************************************************************)
RECURSIVE toString10(_)
toString10(n) ==
    IF n < 10 THEN <<Digits[n + 1]>>
    ELSE toString10(n \div 10) \o <<Digits[(n % 10) + 1]>>

IPv4_toString(x) == Join([i \in 1..Len(x.items) |-> toString10(x.items[i])], <<".">>)

IP_toString(x) == IF x.version = 4 THEN IPv4_toString(x) ELSE IPv6_toString(x)

(***************************************************************************)
(* IPRange.parse: a text with "/" must match /^([^/]+)\/(\d+)$/, a text    *)
(* with "-" is split at every "-", any other text is one address.  NoRange *)
(* is the null it returns.                                                 *)
(***************************************************************************)
IPV4_BITS == 32

IPV6_BITS == 128

\* A faulty IPRange.parse: the bit count is not checked against the width of
\* the address.
IPRange_parseAnyBits(string) ==
    IF IndexOf(string, <<"/">>, 0) >= 0
    THEN LET match == Split(string, "/")
         IN  IF ~(/\ Len(match) = 2
                  /\ Len(match[1]) >= 1
                  /\ Len(match[2]) >= 1
                  /\ \A i \in 1..Len(match[2]) : IsDigit(match[2][i]))
             THEN NoRange
             ELSE LET addr == IP_parse(match[1])
                      nbits == Number(match[2])
                  IN  IF addr = Null THEN NoRange
                      ELSE IP_cidr(addr, nbits)
    ELSE IF IndexOf(string, <<"-">>, 0) >= 0
    THEN LET pieces == Split(string, "-")
         IN  IF Len(pieces) > 2 THEN NoRange
             ELSE LET first == IP_parse(pieces[1])
                      last == IP_parse(pieces[2])
                  IN  IF first.version = 4 /\ last.version = 4 THEN IPRange(first, last)
                      ELSE IF first.version = 6 /\ last.version = 6 THEN IPRange(first, last)
                      ELSE NoRange
    ELSE LET single == IP_parse(string)
         IN  IF single.version = 4 THEN IPRange(single, single)
             ELSE IF single.version = 6 THEN IPRange(single, single)
             ELSE NoRange

IPRange_parse(string) ==
    IF IndexOf(string, <<"/">>, 0) >= 0
    THEN LET match == Split(string, "/")
         IN  IF ~(/\ Len(match) = 2
                  /\ Len(match[1]) >= 1
                  /\ Len(match[2]) >= 1
                  /\ \A i \in 1..Len(match[2]) : IsDigit(match[2][i]))
             THEN NoRange
             ELSE LET addr == IP_parse(match[1])
                      nbits == Number(match[2])
                  IN  IF addr = Null THEN NoRange
                      ELSE IF \/ (addr.version = 4 /\ nbits > IPV4_BITS)
                              \/ (addr.version = 6 /\ nbits > IPV6_BITS)
                           THEN NoRange
                      ELSE IP_cidr(addr, nbits)
    ELSE IF IndexOf(string, <<"-">>, 0) >= 0
    THEN LET pieces == Split(string, "-")
         IN  IF Len(pieces) > 2 THEN NoRange
             ELSE LET first == IP_parse(pieces[1])
                      last == IP_parse(pieces[2])
                  IN  IF first.version = 4 /\ last.version = 4 THEN IPRange(first, last)
                      ELSE IF first.version = 6 /\ last.version = 6 THEN IPRange(first, last)
                      ELSE NoRange
    ELSE LET single == IP_parse(string)
         IN  IF single.version = 4 THEN IPRange(single, single)
             ELSE IF single.version = 6 THEN IPRange(single, single)
             ELSE NoRange

\* A call of IPRange.parse: rng is what it returns; a constructor call that
\* throws leaves TypeError there and sets thrown.
ParseRange(string) ==
    /\ op = "init"
    /\ txt' = string
    /\ rng' = IPRange_parse(string)
    /\ thrown' = (rng' = TypeError)
    /\ op' = "parse"
    /\ UNCHANGED <<a, b, c, bits, res, num, out, pc, ip, yielded>>

(***************************************************************************)
(* SpecRange: one range is created, by the constructor, by cidr or by      *)
(* IPRange.parse.  The sample addresses have every item equal to one       *)
(* sample value but for one item; the texts are what toString gives for    *)
(* them, alone, in pairs around "-" and before "/" and a bit count.        *)
(***************************************************************************)
RangeVals == 2

ByteSamples == <<170, 0, 255, 1, 128>>

WordSamples == <<42435, 0, 65535, 1, 32768>>

OneOff(n, samples) ==
    {[i \in 1..n |-> IF i = j THEN samples[v] ELSE samples[u]] :
        u \in 1..RangeVals, v \in 1..RangeVals, j \in 1..n}

RangePool4 == {IPv4(t) : t \in OneOff(4, ByteSamples)} \cup {IPv4(<<1, 2, 3, 255>>)}

RangePool6 ==
    {IPv6(t) : t \in OneOff(8, WordSamples)}
        \cup {IPv6(<<1, 2, 3, 65535, 5, 6, 7, 8>>)}

RangePool == RangePool4 \cup RangePool6

BitCounts4 == (0 - 1)..(IPV4_BITS + 1)

BitCounts6 == (0 - 1)..(IPV6_BITS + 1)

BitTexts == {toString10(n) : n \in {0, 1, 25, 32, 33, 49, 128, 129}} \cup {<<"-", "1">>, <<>>}

\* Texts with "/" or "-" in odd places: a bit count with a leading zero, with
\* a sign, a blank, a letter or a dot, or missing; a missing address; two
\* separators; both separators.
SeparatorTexts ==
    {<<"1", ".", "2", ".", "3", ".", "4", "/", "0", "3", "2">>,
     <<":", ":", "/", "0", "1", "2", "8">>,
     <<":", ":", "/", "0", "1", "2", "9">>,
     <<"1", ".", "2", ".", "3", ".", "4", "/", "2", "4", "/">>,
     <<" ", "1", ".", "2", ".", "3", ".", "4", "/", "2", "4">>,
     <<"1", ".", "2", ".", "3", ".", "4", "/", " ", "2", "4">>,
     <<"1", ".", "2", ".", "3", ".", "4", "/", "+", "2", "4">>,
     <<"1", ".", "2", ".", "3", ".", "4", "/", "2", "4", "a">>,
     <<"1", ".", "2", ".", "3", ".", "4", "/", "1", "e", "1">>,
     <<"1", ".", "2", ".", "3", ".", "4", "/", "2", ".", "5">>,
     <<"/", "2", "4">>,
     <<"1", ".", "2", ".", "3", ".", "4", "/">>,
     <<"/", "/">>,
     <<"1", ".", "2", ".", "3", ".", "4", "-">>,
     <<"-", "1", ".", "2", ".", "3", ".", "4">>,
     <<"-", "-">>,
     <<"1", ".", "2", ".", "3", ".", "4", "-", "1", ".", "2", ".", "3", ".", "5", "/", "2", "4">>,
     <<"1", ".", "2", ".", "3", ".", "4", "/", "2", "4", "-", "1", ".", "2", ".", "3", ".", "5">>,
     <<"1", ".", "2", ".", "3", ".", "4", " ", "-", " ", "1", ".", "2", ".", "3", ".", "5">>,
     <<"1", ".", "2", ".", "3", ".", "4", "/", "2", "4", "/", "8">>,
     <<":", ":", "1", ".", "2", ".", "3", ".", "4", "/", "9", "7">>,
     <<":", ":", "f", "f", "f", "f", ":", "1", ".", "2", ".", "3", ".", "4", "-", ":", ":", "f", "f", "f", "f", ":", "1", ".", "2", ".", "3", ".", "0">>}

RangeTexts ==
    {IP_toString(x) : x \in RangePool}
        \cup {IP_toString(x) \o <<"-">> \o IP_toString(y) :
                  x \in RangePool4, y \in RangePool4 \cup {IPv6(IPV6_ZEROS)}}
        \cup {IP_toString(x) \o <<"-">> \o IP_toString(y) :
                  x \in RangePool6,
                  y \in {IPv4(<<1, 2, 3, 255>>)} \cup {IPv6(t) : t \in OneOff(8, <<0, 1, 65535>>)}}
        \cup {IP_toString(x) \o <<"/">> \o n : x \in RangePool, n \in BitTexts}
        \cup {<<>>, <<"/">>, <<"-">>, <<"1", ".", "2", ".", "3">>,
              <<":", ":", "-", ":", ":", "1", "-", ":", ":", "2">>,
              <<":", ":", "/", "1", "/", "2">>}
        \cup SeparatorTexts

ConstructAny == \E x \in RangePool, y \in RangePool : Construct(x, y)

CidrAny4 == \E x \in RangePool4, n \in BitCounts4 : Cidr4(x, n)

CidrAny6 == \E x \in RangePool6, n \in BitCounts6 : Cidr6(x, n)

ParseRangeAny == \E t \in RangeTexts : ParseRange(t)

NextRange == ConstructAny \/ CidrAny4 \/ CidrAny6 \/ ParseRangeAny

SpecRange == Idle /\ [][NextRange]_vars

\* C5: every range that exists has endpoints of its own version with
\* first <= last; the constructor keeps the two endpoints, swapped when given
\* in reversed order, and throws and creates no range for two versions.
C5_RangeInvariant ==
    /\ rng # NoRange =>
           /\ rng.version \in {4, 6}
           /\ rng.first.version = rng.version
           /\ rng.last.version = rng.version
           /\ IP_cmp(rng.first, rng.last) <= 0
    /\ (op = "construct" /\ a.version = b.version) =>
           /\ ~thrown
           /\ rng # NoRange
           /\ {rng.first, rng.last} = {a, b}
    /\ (op = "construct" /\ a.version # b.version) => (thrown /\ rng = NoRange)
    /\ op # "construct" => ~thrown

\* A range made by the constructor from endpoints given in reversed order.
C5_Witness ==
    /\ op = "construct"
    /\ IP_cmp(a, b) > 0
    /\ a.version = b.version
    /\ rng.first = b /\ rng.last = a

\* Bit k (0 the most significant) of an address of items w bits wide.
BitOf(x, k, w) == (x.items[(k \div w) + 1] \div (2 ^ (w - 1 - (k % w)))) % 2

ItemBits(x) == IF x.version = 4 THEN 8 ELSE 16

\* C6: cidr(bits), for bits within the width of the address, gives the range
\* from the address with every bit after the first `bits` cleared to the
\* address with every such bit set, the first `bits` bits unchanged in both.
C6_CidrClearsAndSetsHostBits ==
    (op = "cidr" /\ bits \in 0..(ItemBits(a) * Len(a.items))) =>
        /\ rng.version = a.version
        /\ Len(rng.first.items) = Len(a.items)
        /\ Len(rng.last.items) = Len(a.items)
        /\ \A i \in 1..Len(a.items) :
               /\ rng.first.items[i] \in 0..ItemMax(a)
               /\ rng.last.items[i] \in 0..ItemMax(a)
        /\ \A k \in 0..(ItemBits(a) * Len(a.items) - 1) :
               /\ BitOf(rng.first, k, ItemBits(a)) = IF k < bits THEN BitOf(a, k, ItemBits(a)) ELSE 0
               /\ BitOf(rng.last, k, ItemBits(a)) = IF k < bits THEN BitOf(a, k, ItemBits(a)) ELSE 1

\* 1.2.3.255/25 is 1.2.3.128 to 1.2.3.255.
C6_Witness ==
    /\ op = "cidr"
    /\ a = IPv4(<<1, 2, 3, 255>>)
    /\ bits = 25
    /\ rng.first = IPv4(<<1, 2, 3, 128>>)
    /\ rng.last = IPv4(<<1, 2, 3, 255>>)

(***************************************************************************)
(* SpecCmp: IP.cmp on every pair of three addresses.  The sample addresses *)
(* differ in their first and last items.                                   *)
(***************************************************************************)
CmpVals == 3

CmpBytes == <<9, 10, 255, 0, 100>>

CmpWords == <<9, 10, 65535, 0, 256>>

CmpPool ==
    {IPv4(<<CmpBytes[p], 0, 0, CmpBytes[q]>>) : p \in 1..CmpVals, q \in 1..CmpVals}
        \cup {IPv6(<<CmpWords[p], 0, 0, 0, 0, 0, 0, CmpWords[q]>>) :
                  p \in 1..CmpVals, q \in 1..CmpVals}

InitCmp ==
    /\ a \in CmpPool /\ b \in CmpPool /\ c \in CmpPool
    /\ op = "init"
    /\ txt = NoText /\ out = NoText
    /\ res = Null
    /\ bits = 0 /\ num = <<>>
    /\ rng = NoRange /\ thrown = FALSE
    /\ pc = "none" /\ ip = Null /\ yielded = <<>>

Compare ==
    /\ op = "init"
    /\ num' = [aa |-> IP_cmp(a, a), ab |-> IP_cmp(a, b), ba |-> IP_cmp(b, a),
               bc |-> IP_cmp(b, c), ac |-> IP_cmp(a, c)]
    /\ op' = "cmp"
    /\ UNCHANGED <<txt, a, b, c, bits, res, out, rng, thrown, pc, ip, yielded>>

NextCmp == Compare

SpecCmp == InitCmp /\ [][NextCmp]_vars

\* x is below y in the numeric order of a family: at the most significant
\* item where they differ, x holds the smaller number.
NumericallyBelow(x, y) ==
    \E k \in 1..Len(x.items) :
        /\ x.items[k] < y.items[k]
        /\ \A j \in 1..(k - 1) : x.items[j] = y.items[j]

\* C7: IP.cmp is a total order: it returns -1, 0 or 1, 0 for an address and
\* itself, opposite signs for swapped arguments, it is transitive, within a
\* family it is the numeric order from the most significant item, and every
\* IPv4 address is below every IPv6 address.
C7_CmpIsTotalOrder ==
    op = "cmp" =>
        /\ \A f \in DOMAIN num : num[f] \in {-1, 0, 1}
        /\ num.aa = 0
        /\ num.ab = 0 - num.ba
        /\ (num.ab = 0) <=> (a = b)
        /\ (num.ab <= 0 /\ num.bc <= 0) => num.ac <= 0
        /\ (num.ab < 0 /\ num.bc <= 0) => num.ac < 0
        /\ a.version = b.version => ((num.ab = -1) <=> NumericallyBelow(a, b))
        /\ (a.version = 4 /\ b.version = 6) => (num.ab = -1 /\ num.ba = 1)

\* 9.0.0.0 is below 10.0.0.0 (numeric, not lexical), which is below an IPv6
\* address with smaller items.
C7_Witness ==
    /\ op = "cmp"
    /\ a = IPv4(<<9, 0, 0, 255>>)
    /\ b = IPv4(<<10, 0, 0, 9>>)
    /\ c = IPv6(<<9, 0, 0, 0, 0, 0, 0, 9>>)
    /\ num.ab = -1 /\ num.bc = -1 /\ num.ac = -1

(***************************************************************************)
(* SpecText: a text is parsed by IPv6.parse; the address, if any, is       *)
(* formatted by toString and the output parsed again and compared.         *)
(* The texts: eight words in full form; up to MaxSegs segments, empty or a *)
(* word, between colons; up to MaxShortSegs segments that may also be a    *)
(* word of five digits; embedded IPv4 literals; and texts no grammar       *)
(* accepts.                                                                *)
(***************************************************************************)
NWordForms == 2

MaxSegs == 9

MaxShortSegs == 4

WordForms == <<<<"0">>, <<"0", "F", "a", "0">>, <<"1">>, <<"f", "f", "f", "f">>>>

FullTexts ==
    {Join(t, <<":">>) : t \in Tuples(8, {WordForms[i] : i \in 1..NWordForms})}

SegTexts ==
    UNION {{Join(t, <<":">>) : t \in Tuples(k, {<<>>, <<"b", "2">>})} : k \in 1..MaxSegs}

ShortTexts ==
    UNION {{Join(t, <<":">>) : t \in Tuples(k, {<<>>, <<"0">>, <<"1", "2", "3", "4", "5">>})} : k \in 1..MaxShortSegs}

EmbeddedTexts ==
    {pre \o IPv4_toString(x) :
        pre \in {<<":", ":">>, <<":", ":", "f", "f", "f", "f", ":">>, <<"0", ":", "0", ":", "0", ":", "0", ":", "0", ":", "0", ":">>, <<"1", ":", ":">>, <<"1", ":", "2", ":", "3", ":", "4", ":", "5", ":", "6", ":", "7", ":">>, <<"1", ":", "2", ":", "3", ":", "4", ":", "5", ":", "6", ":", ":">>},
        x \in {IPv4(<<192, 0, 2, 1>>), IPv4(<<0, 0, 0, 0>>), IPv4(<<255, 255, 255, 255>>)}}

OddTexts == {<<>>, <<"g", ":", ":">>, <<" ", ":", ":", "1">>, <<"1", ".", "2", ".", "3", ".", "4">>, <<":", ":", "1", ".", "2", ".", "3">>, <<":", ":", "1", ".", "2", ".", "3", ".", "4", ":", "1">>}

\* Texts between dots: octets in range, one out of range, one with a leading
\* zero.
NOctetForms == 3

OctetForms == <<<<"1", "0">>, <<"2", "5", "5">>, <<"2", "5", "6">>, <<"0", "1">>>>

QuadForms ==
    {Join(t, <<".">>) : t \in Tuples(4, {OctetForms[i] : i \in 1..NOctetForms})}

QuadPrefixes ==
    {<<":", ":">>,
     <<"1", ":", "2", ":", "3", ":", "4", ":", "5", ":", "6", ":">>,
     <<"1", ":", "2", ":", "3", ":", "4", ":", "5", ":", "6", ":", "7", ":">>,
     <<":", ":", "1", ":", "2", ":", "3", ":", "4", ":", "5", ":">>,
     <<"1", ":", ":">>,
     <<"g", ":", ":">>,
     <<>>,
     <<":">>}

\* A dotted quad after each prefix, as the last segment or followed by a word.
QuadTexts ==
    {pre \o quad \o suf : pre \in QuadPrefixes, quad \in QuadForms, suf \in {<<>>, <<":", "1">>}}

\* Dotted texts that are no quad, a quad that is not the last segment, a last
\* segment of decimal digits only, and a quad after six words of four digits.
QuadOddTexts ==
    {<<":", ":", "0", "1", ".", "2", ".", "3", ".", "4">>,
     <<":", ":", "1", ".", "2", ".", "3", ".", "4", ".", "5">>,
     <<":", ":", "1", ".", ".", "2", ".", "3">>,
     <<":", ":", ".", "1", ".", "2", ".", "3">>,
     <<":", ":", "2", "5", "5">>,
     <<"1", ":", "2", ":", "3", ":", "4", ":", "5", ":", "6", ":", "7", ":", "2", "5", "5">>,
     <<":", ":", "9", "9">>,
     <<"1", ".", "2", ".", "3", ".", "4", ":", ":">>,
     <<"1", ".", "2", ".", "3", ".", "4", ":", "1", ".", "2", ".", "3", ".", "4">>,
     <<":", ":", "1", ".", "2", ".", "3", ".", "4", ":">>,
     <<":", ":", "1", ".", "2", ".", "3", ".", "4", " ">>,
     <<":", ":", "1", ",", "2", ",", "3", ",", "4">>,
     <<"1", "1", "1", "1", ":", "2", "2", "2", "2", ":", "3", "3", "3", "3", ":", "4", "4", "4", "4", ":", "5", "5", "5", "5", ":", "6", "6", "6", "6", ":", "2", "5", "5", ".", "2", "5", "5", ".", "2", "5", "5", ".", "2", "5", "5">>,
     <<"A", "B", "C", "D", ":", ":", "F", "F", "F", "F", ":", "1", "9", "9", ".", "2", "4", "9", ".", "2", "5", "0", ".", "2", "5", "5">>}

ParseTexts ==
    FullTexts \cup SegTexts \cup ShortTexts \cup EmbeddedTexts \cup OddTexts
        \cup QuadTexts \cup QuadOddTexts

InitText ==
    /\ txt \in ParseTexts
    /\ op = "init"
    /\ out = NoText
    /\ a = Null /\ b = Null /\ c = Null /\ res = Null
    /\ bits = 0 /\ num = <<>>
    /\ rng = NoRange /\ thrown = FALSE
    /\ pc = "none" /\ ip = Null /\ yielded = <<>>

ParseV6 ==
    /\ op = "init"
    /\ a' = IPv6_parse(txt)
    /\ op' = "parsed"
    /\ UNCHANGED <<txt, b, c, bits, res, num, out, rng, thrown, pc, ip, yielded>>

Format ==
    /\ op = "parsed"
    /\ a # Null
    /\ out' = IPv6_toString(a)
    /\ op' = "formatted"
    /\ UNCHANGED <<txt, a, b, c, bits, res, num, rng, thrown, pc, ip, yielded>>

Reparse ==
    /\ op = "formatted"
    /\ res' = IPv6_parse(out)
    /\ num' = IF res' # Null THEN <<IPv6_cmp(res', a)>> ELSE <<>>
    /\ op' = "reparsed"
    /\ UNCHANGED <<txt, a, b, c, bits, out, rng, thrown, pc, ip, yielded>>

NextText == ParseV6 \/ Format \/ Reparse

SpecText == InitText /\ [][NextText]_vars

\* The lowercase hexadecimal digits of w, none of them a leading zero.
HexDigitsOf(w) ==
    LET n == IF w < 16 THEN 1 ELSE IF w < 256 THEN 2 ELSE IF w < 4096 THEN 3 ELSE 4
    IN  [i \in 1..n |-> HexLower[((w \div (16 ^ (n - i))) % 16) + 1]]

HexJoin(words, from, to) ==
    Join([i \in 1..(to - from + 1) |-> HexDigitsOf(words[from + i - 1])], <<":">>)

\* The maximal runs <<start, length>> of two or more zero words.
ZeroRuns(words) ==
    {r \in (1..8) \X (2..8) :
        /\ r[1] + r[2] - 1 <= 8
        /\ \A i \in r[1]..(r[1] + r[2] - 1) : words[i] = 0
        /\ (r[1] = 1 \/ words[r[1] - 1] # 0)
        /\ (r[1] + r[2] - 1 = 8 \/ words[r[1] + r[2]] # 0)}

\* The longest run, the leftmost of the longest.
LeftmostLongest(words) ==
    CHOOSE r \in ZeroRuns(words) :
        \A q \in ZeroRuns(words) : r[2] > q[2] \/ (r[2] = q[2] /\ r[1] <= q[1])

CanonicalText(words) ==
    IF ZeroRuns(words) = {} THEN HexJoin(words, 1, 8)
    ELSE LET r == LeftmostLongest(words)
         IN  HexJoin(words, 1, r[1] - 1) \o <<":", ":">> \o HexJoin(words, r[1] + r[2], 8)

\* C8: toString of an IPv6 address is its words in lowercase hexadecimal
\* without leading zeros, joined by ":", with the leftmost longest run of two
\* or more zero words replaced by "::", and no "::" when there is no such run.
C8_ToStringLeftmostLongest ==
    op \in {"formatted", "reparsed"} => out = CanonicalText(a.items)

\* Two runs of three zero words: the left one is replaced.
C8_Witness ==
    /\ op = "formatted"
    /\ a = IPv6(<<4000, 0, 0, 0, 4000, 0, 0, 0>>)
    /\ out = <<"f", "a", "0", ":", ":", "f", "a", "0", ":", "0", ":", "0", ":", "0">>

\* C9: the output of toString for an address IPv6.parse returned parses
\* again, to an address IPv6.cmp finds equal to it.
C9_ToStringReparses ==
    op = "reparsed" => (res # Null /\ num = <<0>> /\ res.items = a.items)

\* ::ffff:192.0.2.1 is formatted as ::ffff:c000:201, which parses to the same words.
C9_Witness ==
    /\ op = "reparsed"
    /\ txt = <<":", ":", "f", "f", "f", "f", ":", "1", "9", "2", ".", "0", ".", "2", ".", "1">>
    /\ out = <<":", ":", "f", "f", "f", "f", ":", "c", "0", "0", "0", ":", "2", "0", "1">>
    /\ res = IPv6(<<0, 0, 0, 0, 0, 65535, 49152, 513>>)
    /\ num = <<0>>

(***************************************************************************)
(* The grammar of a colon-hex text, by the places of its colons.           *)
(***************************************************************************)
IsColonHex(t) == \A i \in 1..Len(t) : IsHexDigit(t[i]) \/ t[i] = ":"

Colons(t) == {i \in 1..Len(t) : t[i] = ":"}

DoubleColons(t) == {i \in 1..(Len(t) - 1) : t[i] = ":" /\ t[i + 1] = ":"}

\* The place of the k-th colon of t; 0 before the first, Len(t) + 1 after the last.
NthColon(t, k) ==
    IF k = 0 THEN 0
    ELSE IF k > Cardinality(Colons(t)) THEN Len(t) + 1
    ELSE CHOOSE i \in Colons(t) : Cardinality({j \in Colons(t) : j <= i}) = k

\* The words of a part of the text: what lies between its colons; an empty
\* part holds no word.
PartWords(t) ==
    IF Len(t) = 0 THEN <<>>
    ELSE [k \in 1..(Cardinality(Colons(t)) + 1) |->
             SubSeq(t, NthColon(t, k - 1) + 1, NthColon(t, k) - 1)]

RECURSIVE HexSum(_, _)
HexSum(w, i) ==
    IF i > Len(w) THEN 0
    ELSE HexVal(w[i]) * (16 ^ (Len(w) - i)) + HexSum(w, i + 1)

WordValues(ws) == [k \in 1..Len(ws) |-> HexSum(ws[k], 1)]

Zeros(n) == [i \in 1..n |-> 0]

ExpectedWords(t) ==
    LET dc == DoubleColons(t)
        at == IF dc = {} THEN 0 ELSE CHOOSE i \in dc : TRUE
        head == IF dc = {} THEN PartWords(t) ELSE PartWords(SubSeq(t, 1, at - 1))
        tail == IF dc = {} THEN <<>> ELSE PartWords(SubSeq(t, at + 2, Len(t)))
        all == head \o tail
    IN  IF Cardinality(dc) >= 2 THEN Null
        ELSE IF \E k \in 1..Len(all) : Len(all[k]) = 0 \/ Len(all[k]) > 4 THEN Null
        ELSE IF dc = {} /\ Len(all) # 8 THEN Null
        ELSE IF dc # {} /\ Len(all) > 7 THEN Null
        ELSE IPv6(WordValues(head) \o Zeros(8 - Len(all)) \o WordValues(tail))

\* C10: IPv6.parse of a colon-hex text is null for two or more "::", for an
\* empty word or a word of more than 4 digits, for a word count other than 8
\* without "::" and for more than 7 words with "::"; otherwise it is the head
\* words, zero words in the place of "::" up to 8 words, and the tail words.
C10_ParseColonHex ==
    (op # "init" /\ IsColonHex(txt)) => a = ExpectedWords(txt)

\* b2::b2:b2 has one head word, five zero words and two tail words.
C10_Witness ==
    /\ op = "parsed"
    /\ txt = <<"b", "2", ":", ":", "b", "2", ":", "b", "2">>
    /\ a = IPv6(<<178, 0, 0, 0, 0, 0, 178, 178>>)

\* Nine words without "::" are no address.
C10_WitnessNull ==
    /\ op = "parsed"
    /\ IsColonHex(txt)
    /\ DoubleColons(txt) = {}
    /\ Len(PartWords(txt)) = 9
    /\ a = Null

(***************************************************************************)
(* An IPv4 literal embedded in an IPv6 text, by the places of the last     *)
(* colon and of the dots.                                                  *)
(***************************************************************************)
Dots(t) == {i \in 1..Len(t) : t[i] = "."}

\* The place of the last colon of t; 0 when it has none.
LastColon(t) ==
    IF Colons(t) = {} THEN 0
    ELSE CHOOSE i \in Colons(t) : \A j \in Colons(t) : j <= i

\* The place of the k-th dot of t; 0 before the first, Len(t) + 1 after the last.
NthDot(t, k) ==
    IF k = 0 THEN 0
    ELSE IF k > Cardinality(Dots(t)) THEN Len(t) + 1
    ELSE CHOOSE i \in Dots(t) : Cardinality({j \in Dots(t) : j <= i}) = k

DotPart(t, k) == SubSeq(t, NthDot(t, k - 1) + 1, NthDot(t, k) - 1)

RECURSIVE DecSum(_, _)
DecSum(w, i) ==
    IF i > Len(w) THEN 0
    ELSE DigitVal(w[i]) * (10 ^ (Len(w) - i)) + DecSum(w, i + 1)

\* One to three decimal digits, no leading zero before another digit, at most 255.
IsDecimalOctet(w) ==
    /\ Len(w) \in 1..3
    /\ \A i \in 1..Len(w) : IsDigit(w[i])
    /\ (Len(w) > 1 => w[1] # "0")
    /\ DecSum(w, 1) <= BYTE_MAX

IsQuad(t) ==
    /\ Cardinality(Dots(t)) = 3
    /\ \A k \in 1..4 : IsDecimalOctet(DotPart(t, k))

\* The two hex words a quad stands for, joined by a colon.
QuadAsWords(t) ==
    HexDigitsOf(DecSum(DotPart(t, 1), 1) * 256 + DecSum(DotPart(t, 2), 1))
        \o <<":">>
        \o HexDigitsOf(DecSum(DotPart(t, 3), 1) * 256 + DecSum(DotPart(t, 4), 1))

\* C11: IPv6.parse of a text with a dot is null unless what follows the last
\* colon is a dotted quad of decimal octets and what precedes it is colon-hex;
\* then the result is what the grammar gives the text with the quad replaced
\* by the hex words byte1*256+byte2 and byte3*256+byte4, null included when
\* that makes more than 8 words. A last segment of decimal digits only is
\* read as one hex word.
C11_EmbeddedQuadIsLastTwoWords ==
    op # "init" =>
        LET at == LastColon(txt)
            prefix == SubSeq(txt, 1, at)
            last == SubSeq(txt, at + 1, Len(txt))
        IN  /\ Dots(txt) # {} =>
                   IF at > 0 /\ IsQuad(last) /\ IsColonHex(prefix)
                   THEN a = ExpectedWords(prefix \o QuadAsWords(last))
                   ELSE a = Null
            /\ (Dots(txt) = {} /\ at > 0 /\ IsDecimalOctet(last) /\ IsColonHex(prefix)) =>
                   /\ a = ExpectedWords(txt)
                   /\ a # Null => a.items[8] = HexSum(last, 1)

\* ::ffff:192.0.2.1 is the words of ::ffff:c000:201.
C11_Witness ==
    /\ op = "parsed"
    /\ txt = <<":", ":", "f", "f", "f", "f", ":", "1", "9", "2", ".", "0", ".", "2", ".", "1">>
    /\ a = IPv6(<<0, 0, 0, 0, 0, 65535, 49152, 513>>)
    /\ a = ExpectedWords(<<":", ":", "f", "f", "f", "f", ":", "c", "0", "0", "0", ":", "2", "0", "1">>)

\* Seven words and a quad are nine words: no address.
C11_WitnessTooMany ==
    /\ op = "parsed"
    /\ txt = <<"1", ":", "2", ":", "3", ":", "4", ":", "5", ":", "6", ":", "7", ":", "1", "0", ".", "2", "5", "5", ".", "1", "0", ".", "2", "5", "5">>
    /\ a = Null

\* A quad followed by another word is no address.
C11_WitnessNotLast ==
    /\ op = "parsed"
    /\ txt = <<":", ":", "1", "0", ".", "1", "0", ".", "1", "0", ".", "1", "0", ":", "1">>
    /\ a = Null

\* ::255 is the word 0x255, not the octet 255.
C11_WitnessBareDecimal ==
    /\ op = "parsed"
    /\ txt = <<":", ":", "2", "5", "5">>
    /\ a = IPv6(<<0, 0, 0, 0, 0, 0, 0, 597>>)

(***************************************************************************)
(* The texts IPRange.parse accepts, by the places of "/" and "-".          *)
(***************************************************************************)
Slashes(t) == {i \in 1..Len(t) : t[i] = "/"}

Dashes(t) == {i \in 1..Len(t) : t[i] = "-"}

Before(t, places) == SubSeq(t, 1, (CHOOSE i \in places : TRUE) - 1)

After(t, places) == SubSeq(t, (CHOOSE i \in places : TRUE) + 1, Len(t))

IsDecimal(w) == Len(w) >= 1 /\ \A i \in 1..Len(w) : IsDigit(w[i])

WidthOf(x) == ItemBits(x) * Len(x.items)

\* address/count with one "/", an address that parses and a decimal count
\* within the width of the address.
IsCidrText(t) ==
    /\ Cardinality(Slashes(t)) = 1
    /\ IsDecimal(After(t, Slashes(t)))
    /\ IP_parse(Before(t, Slashes(t))) # Null
    /\ DecSum(After(t, Slashes(t)), 1) <= WidthOf(IP_parse(Before(t, Slashes(t))))

\* address-address with one "-" and two addresses of one version.
IsPairText(t) ==
    /\ Cardinality(Dashes(t)) = 1
    /\ IP_parse(Before(t, Dashes(t))) # Null
    /\ IP_parse(After(t, Dashes(t))) # Null
    /\ IP_parse(Before(t, Dashes(t))).version = IP_parse(After(t, Dashes(t))).version

\* C12: IPRange.parse throws for no text. For a text with "/" it gives a
\* range exactly when the text is address/count with an address that parses
\* and a decimal count within 0..32 for IPv4 or 0..128 for IPv6, the range of
\* that prefix; for a text with "-" and no "/", exactly when there is one "-"
\* between two addresses of one version, the range of the two; for any other
\* text exactly when the text parses as an address, the range from it to
\* itself. In every other case it gives null.
C12_ParseRangeNullOnInvalid ==
    op = "parse" =>
        /\ ~thrown
        /\ IF Slashes(txt) # {}
           THEN /\ (rng # NoRange) <=> IsCidrText(txt)
                /\ rng # NoRange =>
                       LET addr == IP_parse(Before(txt, Slashes(txt)))
                           count == DecSum(After(txt, Slashes(txt)), 1)
                       IN  /\ rng.version = addr.version
                           /\ \A k \in 0..(WidthOf(addr) - 1) :
                                  /\ BitOf(rng.first, k, ItemBits(addr)) =
                                         IF k < count THEN BitOf(addr, k, ItemBits(addr)) ELSE 0
                                  /\ BitOf(rng.last, k, ItemBits(addr)) =
                                         IF k < count THEN BitOf(addr, k, ItemBits(addr)) ELSE 1
           ELSE IF Dashes(txt) # {}
           THEN /\ (rng # NoRange) <=> IsPairText(txt)
                /\ rng # NoRange =>
                       {rng.first, rng.last} = {IP_parse(Before(txt, Dashes(txt))),
                                                IP_parse(After(txt, Dashes(txt)))}
           ELSE /\ (rng # NoRange) <=> (IP_parse(txt) # Null)
                /\ rng # NoRange => (rng.first = IP_parse(txt) /\ rng.last = rng.first)

\* 1.2.3.255/33 has a bit count above 32: no range, nothing thrown.
C12_Witness ==
    /\ op = "parse"
    /\ txt = <<"1", ".", "2", ".", "3", ".", "2", "5", "5", "/", "3", "3">>
    /\ rng = NoRange
    /\ ~thrown

\* ::/129 has a bit count above 128.
C12_WitnessV6Bits ==
    /\ op = "parse"
    /\ txt = <<":", ":", "/", "0", "1", "2", "9">>
    /\ rng = NoRange

\* A negative bit count is no decimal count.
C12_WitnessNegative ==
    /\ op = "parse"
    /\ Slashes(txt) # {}
    /\ After(txt, Slashes(txt)) = <<"-", "1">>
    /\ IP_parse(Before(txt, Slashes(txt))) # Null
    /\ rng = NoRange

\* Two "-" between three addresses.
C12_WitnessTwoDashes ==
    /\ op = "parse"
    /\ txt = <<":", ":", "-", ":", ":", "1", "-", ":", ":", "2">>
    /\ rng = NoRange

\* Addresses of two versions around one "-".
C12_WitnessMixed ==
    /\ op = "parse"
    /\ Cardinality(Dashes(txt)) = 1 /\ Slashes(txt) = {}
    /\ IP_parse(Before(txt, Dashes(txt))).version = 4
    /\ IP_parse(After(txt, Dashes(txt))).version = 6
    /\ rng = NoRange

\* One address is the range from it to itself.
C12_WitnessSingle ==
    /\ op = "parse"
    /\ txt = <<"1", ".", "2", ".", "3", ".", "2", "5", "5">>
    /\ rng = IPRange(IPv4(<<1, 2, 3, 255>>), IPv4(<<1, 2, 3, 255>>))

\* A bit count with a leading zero is a decimal count.
C12_WitnessLeadingZero ==
    /\ op = "parse"
    /\ txt = <<"1", ".", "2", ".", "3", ".", "4", "/", "0", "3", "2">>
    /\ rng = IPRange(IPv4(<<1, 2, 3, 4>>), IPv4(<<1, 2, 3, 4>>))

=============================================================================
